---------------------------- MODULE Spec2Model ----------------------------
(***************************************************************************)
(* A model of ShadowByte.py (class Stegano): the payload protocol          *)
(* (generate_key, encrypt/decrypt, the frame, the capacity check, encode   *)
(* and decode) and the brute-force search (bruteforce, try_key).           *)
(*                                                                         *)
(* Abstractions of the libraries the program calls:                        *)
(*  - hashlib.sha256 + urlsafe_b64encode: a collision-free tag of the      *)
(*    passphrase; Fernet.generate_key: a key never issued before           *)
(*    (counter issued);                                                    *)
(*  - Fernet: a token decrypts under the key that made it and under no     *)
(*    other; its length is the real one (FernetLen);                       *)
(*  - stegano.lsb: hide stores the text in the image or raises when        *)
(*    "<len>:<text>" needs more than width*height*3 bits; reveal returns   *)
(*    the stored text, or None for an image that carries none.             *)
(* A frame is a sequence of symbols: the base64 text of a token (Ct), a    *)
(* NUL byte (Nul) and a JSON metadata text (Meta).                         *)
(***************************************************************************)
EXTENDS Integers, Sequences, FiniteSets, TLC

(* ------------------------------ bounds -------------------------------- *)
\* symbols dropped from, or separators inserted into, a saved image's frame
MaxTamper == 1
\* keys Fernet.generate_key can issue
MaxRandom == 2
\* calls of generate_key in one run of the key model
MaxCalls == 4

(* ------------------------------ inputs -------------------------------- *)
\* "" is what the command line gives for --key ""
Passphrases == {"", "k1", "k2"}
FileNames == {"a.bin", "message.txt"}
\* inline texts, as code points: "", "A" and e-acute (two bytes in UTF-8)
Texts == {<< >>, <<65>>, <<233>>}
\* file contents, as bytes: "A" and the byte 255 (invalid UTF-8)
FileContents == {<<65>>, <<255>>}
\* sides of the square cover images: capacities of 121, 150 and 337 bytes
Sides == {18, 20, 30}

Inputs ==
    {[kind |-> "text", name |-> "", text |-> t, bytes |-> << >>] : t \in Texts}
    \cup {[kind |-> "file", name |-> n, text |-> << >>, bytes |-> b] :
        n \in FileNames, b \in FileContents}

Covers ==
    {[png |-> TRUE, w |-> s, h |-> s] : s \in Sides}
    \cup {[png |-> FALSE, w |-> 30, h |-> 30]}

(* --------------------------- text and bytes --------------------------- *)
\* str.encode(): UTF-8 of code points below 2048
RECURSIVE Utf8Encode(_)
Utf8Encode(text) ==
    IF text = << >> THEN << >>
    ELSE LET c == Head(text)
         IN (IF c < 128 THEN <<c>> ELSE <<192 + (c \div 64), 128 + (c % 64)>>)
            \o Utf8Encode(Tail(text))

\* bytes.decode(): ok = FALSE stands for UnicodeDecodeError
RECURSIVE Utf8Decode(_)
Utf8Decode(bytes) ==
    IF bytes = << >> THEN [ok |-> TRUE, text |-> << >>]
    ELSE LET b == Head(bytes)
         IN IF b < 128
            THEN LET rest == Utf8Decode(Tail(bytes))
                 IN [ok |-> rest.ok, text |-> <<b>> \o rest.text]
            ELSE IF b >= 194 /\ b < 224 /\ Len(bytes) >= 2
                    /\ bytes[2] >= 128 /\ bytes[2] < 192
            THEN LET rest == Utf8Decode(Tail(Tail(bytes)))
                 IN [ok |-> rest.ok,
                     text |-> <<(b - 192) * 64 + (bytes[2] - 128)>> \o rest.text]
            ELSE [ok |-> FALSE, text |-> << >>]

\* len(base64.b64encode(x)) for len(x) = n
B64Len(n) == 4 * ((n + 2) \div 3)

\* len(Fernet(key).encrypt(data)) for len(data) = n: version, timestamp, IV,
\* PKCS7-padded AES-CBC ciphertext and HMAC, urlsafe-base64 encoded
FernetLen(n) == B64Len(57 + 16 * ((n \div 16) + 1))

(* ------------------------------- keys --------------------------------- *)
NoKey == [kind |-> "none", of |-> "", n |-> 0]

generate_key_falsy(user_key, n) ==
    [kind |-> "random", of |-> "", n |-> n]

\* generate_key: n is the index of the next key Fernet.generate_key issues
generate_key(user_key, n) ==
    IF user_key # ""
    THEN [kind |-> "sha256", of |-> user_key, n |-> 0]
    ELSE [kind |-> "random", of |-> "", n |-> n]

(* ------------------------------ cipher -------------------------------- *)
\* bytes that are no Fernet token
Garbage == [valid |-> FALSE, msg |-> << >>, key |-> NoKey]

\* encrypt: the token (never None for a key generate_key made)
encrypt(data, key) == [valid |-> TRUE, msg |-> data, key |-> key]

decrypt_unauthenticated(encrypted_data, key) ==
    IF encrypted_data.valid
    THEN [ok |-> TRUE, data |-> encrypted_data.msg]
    ELSE [ok |-> FALSE, data |-> << >>]

\* decrypt: ok = FALSE stands for the None returned on InvalidToken
decrypt(encrypted_data, key) ==
    IF encrypted_data.valid /\ encrypted_data.key = key
    THEN [ok |-> TRUE, data |-> encrypted_data.msg]
    ELSE [ok |-> FALSE, data |-> << >>]

(* ------------------------------- frame -------------------------------- *)
Nul == [t |-> "nul"]
Ct(token) == [t |-> "b64", token |-> token]
Meta(filename) == [t |-> "json", filename |-> filename]
separator == <<Nul, Nul, Nul>>

\* len(json.dumps({"filename": name}))
MetaLen(filename) == 16 + Len(filename)

SymLen(sym) ==
    IF sym.t = "nul" THEN 1
    ELSE IF sym.t = "b64" THEN B64Len(FernetLen(Len(sym.token.msg)))
    ELSE MetaLen(sym.filename)

RECURSIVE FrameLen(_)
FrameLen(frame) ==
    IF frame = << >> THEN 0 ELSE SymLen(Head(frame)) + FrameLen(Tail(frame))

\* bytes.split(separator): leftmost, non-overlapping occurrences
RECURSIVE SplitRec(_, _)
SplitRec(s, cur) ==
    IF s = << >> THEN <<cur>>
    ELSE IF Len(s) >= 3 /\ SubSeq(s, 1, 3) = separator
    THEN <<cur>> \o SplitRec(SubSeq(s, 4, Len(s)), << >>)
    ELSE SplitRec(Tail(s), Append(cur, Head(s)))

split(frame) == SplitRec(frame, << >>)

RECURSIVE NonNul(_)
NonNul(part) ==
    IF part = << >> THEN << >>
    ELSE (IF Head(part).t = "nul" THEN << >> ELSE <<Head(part)>>)
         \o NonNul(Tail(part))

\* characters of the base64 alphabet in a symbol's text (a modelled file
\* name holds one character outside it, the dot)
AlphabetLen(sym) ==
    IF sym.t = "json" THEN 8 + Len(sym.filename) - 1
    ELSE IF sym.t = "b64" THEN (4 * FernetLen(Len(sym.token.msg)) + 2) \div 3
    ELSE 0

RECURSIVE AlphabetLenOf(_)
AlphabetLenOf(part) ==
    IF part = << >> THEN 0
    ELSE AlphabetLen(Head(part)) + AlphabetLenOf(Tail(part))

\* base64.b64decode (validate=False): characters outside the alphabet are
\* dropped, input after a complete padding is ignored; ok = FALSE stands
\* for binascii.Error
b64decode(part) ==
    LET f == NonNul(part)
    IN IF f = << >> THEN [ok |-> TRUE, token |-> Garbage]
       ELSE IF Head(f).t = "b64"
               /\ (Len(f) = 1 \/ FernetLen(Len(Head(f).token.msg)) % 3 # 0)
       THEN [ok |-> TRUE, token |-> Head(f).token]
       ELSE IF AlphabetLenOf(f) % 4 = 0
       THEN [ok |-> TRUE, token |-> Garbage]
       ELSE [ok |-> FALSE, token |-> Garbage]

\* json.loads(metadata).get("filename", "decoded_file"); ok = FALSE stands
\* for JSONDecodeError
json_loads(part) ==
    IF Len(part) = 1 /\ part[1].t = "json"
    THEN [ok |-> TRUE, filename |-> part[1].filename]
    ELSE [ok |-> FALSE, filename |-> ""]


(* ---------------------------- file system ----------------------------- *)
NoFile == [exists |-> FALSE, data |-> << >>]
File(data) == [exists |-> TRUE, data |-> data]

\* open(output_filename, "wb"): creates the file or truncates it
open_wb(files, name) == [files EXCEPT ![name] = File(<< >>)]

\* f.write(decrypted_data) and the close that flushes it
write_close(files, name, data) == [files EXCEPT ![name] = File(data)]

(* ------------------------------ images -------------------------------- *)
NoImage == [exists |-> FALSE, png |-> FALSE, w |-> 0, h |-> 0,
            hidden |-> FALSE, frame |-> << >>]

\* the cover image as a file: it carries no hidden text
CoverImage(cov) == [exists |-> TRUE, png |-> cov.png, w |-> cov.w, h |-> cov.h,
                    hidden |-> FALSE, frame |-> << >>]

\* ensure_png: the path ends in ".png"
ensure_png(image) == image.png

\* decimal digits of len(message), the prefix lsb.hide puts before ":"
Digits(n) == IF n < 10 THEN 1 ELSE IF n < 100 THEN 2 ELSE IF n < 1000 THEN 3 ELSE 4

\* lsb.hide raises when "<len>:<message>" needs more than the image's bits
HideFits(frame, image) ==
    LET bits == 8 * (Digits(FrameLen(frame)) + 1 + FrameLen(frame))
        padded == bits + ((3 - (bits % 3)) % 3)
    IN padded <= image.w * image.h * 3

\* lsb.reveal: the hidden text, ok = FALSE for an image that carries none
\* (None) or a path that is no image (an exception)
reveal(image) ==
    IF image.exists /\ image.hidden
    THEN [ok |-> TRUE, frame |-> image.frame]
    ELSE [ok |-> FALSE, frame |-> << >>]

(* ------------------------------ encode -------------------------------- *)
payload_bytes(input) ==
    IF input.kind = "file" THEN input.bytes ELSE Utf8Encode(input.text)

payload_name(input) ==
    IF input.kind = "file" THEN input.name ELSE "message.txt"

\* the frame encode embeds: base64 of the token, the separator, the metadata
build_frame(input, key) ==
    <<Ct(encrypt(payload_bytes(input), key))>> \o separator
        \o <<Meta(payload_name(input))>>

max_message_size(image) == (image.w * image.h * 3) \div 8

\* message_size of encode: len(encrypted_data) + len(metadata)
message_size(input) ==
    FernetLen(Len(payload_bytes(input))) + MetaLen(payload_name(input))

EncodeResult(err, reported, hideCalled, image, frameLen, capacity) ==
    [err |-> err, reported |-> reported, hideCalled |-> hideCalled,
     wrote |-> image.exists, image |-> image,
     frameLen |-> frameLen, capacity |-> capacity]

\* encode(image_path, input_data, output_path, user_key): what it reports,
\* whether lsb.hide is called and the image it saves (NoImage: none)
encode(cov, input, user_key, n) ==
    IF ~ensure_png(cov)
    THEN EncodeResult("format", FALSE, FALSE, NoImage, 0, 0)
    ELSE LET key == generate_key(user_key, n)
             frame == build_frame(input, key)
             cap == max_message_size(cov)
         IN IF message_size(input) > cap
            THEN EncodeResult("capacity", TRUE, FALSE, NoImage, FrameLen(frame), cap)
            ELSE IF ~HideFits(frame, cov)
            THEN EncodeResult("hide", FALSE, TRUE, NoImage, FrameLen(frame), cap)
            ELSE EncodeResult("", FALSE, TRUE,
                              [exists |-> TRUE, png |-> TRUE, w |-> cov.w,
                               h |-> cov.h, hidden |-> TRUE, frame |-> frame],
                              FrameLen(frame), cap)

(* ------------------------------ decode -------------------------------- *)
None == [kind |-> "none", text |-> << >>, name |-> ""]
TextResult(text) == [kind |-> "text", text |-> text, name |-> ""]
FileResult(name) == [kind |-> "file", text |-> << >>, name |-> name]

Outcome(err, step, nparts, auth, name, dec, ret) ==
    [err |-> err, step |-> step, nparts |-> nparts, authFailed |-> auth,
     name |-> name, dec |-> dec, ret |-> ret]

NoData == [ok |-> FALSE, data |-> << >>]

unpack_first_two(parts) == Len(parts) >= 2

\* encrypted_data, metadata = parts: ValueError unless there are two parts
unpack(parts) == Len(parts) = 2

\* decode up to the point where it returns or opens the output file:
\* step "return" carries the value returned, step "open" the file to open
\* and the data to write into it
decode_parse(image, user_key, n) ==
    IF ~ensure_png(image) THEN Outcome("format", "return", 0, FALSE, "", NoData, None)
    ELSE LET key == generate_key(user_key, n)
             revealed == reveal(image)
         IN IF ~revealed.ok \/ revealed.frame = << >>
            THEN Outcome("nodata", "return", 0, FALSE, "", NoData, None)
            ELSE LET parts == split(revealed.frame)
                 IN IF Len(parts) < 2
                    THEN Outcome("corrupted", "return", Len(parts), FALSE, "", NoData, None)
                    ELSE IF ~unpack(parts)
                    THEN Outcome("unpack", "return", Len(parts), FALSE, "", NoData, None)
                    ELSE LET enc == b64decode(parts[1])
                             dec == decrypt(enc.token, key)
                             meta == json_loads(parts[2])
                             txt == Utf8Decode(dec.data)
                         IN IF ~enc.ok
                            THEN Outcome("base64", "return", Len(parts), FALSE, "", NoData, None)
                            ELSE IF ~meta.ok
                            THEN Outcome("json", "return", Len(parts), ~dec.ok, "", NoData, None)
                            ELSE IF meta.filename = "message.txt"
                            THEN IF ~dec.ok
                                 THEN Outcome("auth", "return", Len(parts), TRUE, "", NoData, None)
                                 ELSE IF ~txt.ok
                                 THEN Outcome("unicode", "return", Len(parts), FALSE, "", NoData, None)
                                 ELSE Outcome("", "return", Len(parts), FALSE, "", NoData,
                                              TextResult(txt.text))
                            ELSE Outcome(IF dec.ok THEN "" ELSE "auth", "open", Len(parts),
                                         ~dec.ok, meta.filename, dec,
                                         IF dec.ok THEN FileResult(meta.filename) ELSE None)

\* the files after decode's "with open(...) as f: f.write(decrypted_data)":
\* the file is opened (truncated) first, and writing None raises
decode_files(files, out) ==
    IF out.step # "open" THEN files
    ELSE IF out.dec.ok THEN write_close(open_wb(files, out.name), out.name, out.dec.data)
    ELSE open_wb(files, out.name)

(* ------------------------------- state -------------------------------- *)
VARIABLES
    request,     \* the encode call the run follows: cover, input and passphrase
    stego,       \* the image file at the output path (NoImage: none yet)
    origin,      \* what stego was encoded from, and whether its frame is intact
    fs,          \* the files of the working directory decode writes to
    last,        \* the last encode or decode call: its arguments and outcome
    klog,        \* the generate_key calls of the key model: <<passphrase, key>>
    stop_event,  \* self.stop_event
    pc,          \* where bruteforce (the coordinating thread) is
    wordlist,    \* the stripped lines of the wordlist file
    cursor,      \* lines read_wordlist has yielded
    W,           \* max_threads
    tasks,       \* one try_key task per submitted line: state and result
    futures,     \* the positions in the futures dict
    attempts,    \* decode calls each task has made
    found,       \* (key, decoded_message) of the result bruteforce took
    runs         \* bruteforce calls on this Stegano object so far

codecVars == <<request, stego, origin, fs, last>>
bfVars == <<stop_event, pc, wordlist, cursor, W, tasks, futures, attempts, found, runs>>
vars == <<request, stego, origin, fs, last, klog, stop_event, pc, wordlist, cursor, W,
          tasks, futures, attempts, found, runs>>

NoOrigin == [exists |-> FALSE, input |-> [kind |-> "text", name |-> "",
             text |-> << >>, bytes |-> << >>], user_key |-> "", tampers |-> 0]

NoOp == [op |-> "none", user_key |-> "", target |-> "", ret |-> None, err |-> "",
         reported |-> FALSE, hideCalled |-> FALSE, wrote |-> FALSE,
         frameLen |-> 0, capacity |-> 0, nparts |-> 0, authFailed |-> FALSE,
         fsBefore |-> [n \in FileNames |-> NoFile]]

NoFound == [key |-> "", message |-> None]

\* the brute-force state of a Stegano object on which bruteforce never ran
BfIdle ==
    /\ stop_event = FALSE
    /\ pc = "idle"
    /\ wordlist = << >>
    /\ cursor = 0
    /\ W = 1
    /\ tasks = << >>
    /\ futures = {}
    /\ attempts = << >>
    /\ found = NoFound
    /\ runs = 0

\* a key Fernet.generate_key has not issued to the saved image
FreshIndices(image) ==
    {n \in 1..MaxRandom :
        \A i \in 1..Len(image.frame) :
            image.frame[i].t = "b64" => image.frame[i].token.key.n # n}

Requests == [cov : Covers, input : Inputs, user_key : Passphrases]

(* -------------------------- the codec model --------------------------- *)
Init ==
    /\ request \in Requests
    /\ stego = NoImage
    /\ origin = NoOrigin
    /\ fs = [n \in FileNames |-> NoFile]
    /\ last = NoOp
    /\ klog = << >>
    /\ BfIdle

\* the key indices a call of generate_key(user_key) may draw from
KeyIndices(user_key) == IF user_key = "" THEN FreshIndices(stego) ELSE {0}

\* python ShadowByte.py encode <cover> --data <input> --output <stego> --key <k>
Encode ==
    \E n \in KeyIndices(request.user_key) :
      \E r \in {encode(CoverImage(request.cov), request.input, request.user_key, n)} :
        /\ stego' = IF r.wrote THEN r.image ELSE stego
        /\ origin' = IF r.wrote
                     THEN [exists |-> TRUE, input |-> request.input,
                           user_key |-> request.user_key, tampers |-> 0]
                     ELSE origin
        /\ last' = [NoOp EXCEPT !.op = "encode", !.err = r.err,
                      !.reported = r.reported, !.hideCalled = r.hideCalled,
                      !.wrote = r.wrote, !.frameLen = r.frameLen,
                      !.capacity = r.capacity, !.fsBefore = fs]
        /\ UNCHANGED <<request, fs, klog>>
        /\ UNCHANGED bfVars

\* python ShadowByte.py decode <image> --key <k>, on the saved image
\* (target "stego") or on an image that carries nothing (target "cover")
Decode(target, image, user_key) ==
    \E n \in KeyIndices(user_key) :
      \E out \in {decode_parse(image, user_key, n)} :
        /\ fs' = decode_files(fs, out)
        /\ last' = [NoOp EXCEPT !.op = "decode", !.user_key = user_key,
                      !.target = target, !.ret = out.ret, !.err = out.err,
                      !.nparts = out.nparts, !.authFailed = out.authFailed,
                      !.fsBefore = fs]
        /\ UNCHANGED <<request, stego, origin, klog>>
        /\ UNCHANGED bfVars

DecodeStego == \E k \in Passphrases : Decode("stego", stego, k)

DecodeCover == \E k \in Passphrases : Decode("cover", CoverImage(request.cov), k)

RemoveAt(s, i) == SubSeq(s, 1, i - 1) \o SubSeq(s, i + 1, Len(s))
InsertAt(s, i, t) == SubSeq(s, 1, i - 1) \o t \o SubSeq(s, i, Len(s))

\* the saved image is damaged or edited: one symbol of its frame is lost
DropSymbol ==
    /\ stego.exists /\ origin.tampers < MaxTamper
    /\ \E i \in 1..Len(stego.frame) :
          stego' = [stego EXCEPT !.frame = RemoveAt(stego.frame, i)]
    /\ origin' = [origin EXCEPT !.tampers = @ + 1]
    /\ UNCHANGED <<request, fs, last, klog>>
    /\ UNCHANGED bfVars

\* the saved image is edited: a second separator is put into its frame
InsertSeparator ==
    /\ stego.exists /\ origin.tampers < MaxTamper
    /\ \E i \in 1..(Len(stego.frame) + 1) :
          stego' = [stego EXCEPT !.frame = InsertAt(stego.frame, i, separator)]
    /\ origin' = [origin EXCEPT !.tampers = @ + 1]
    /\ UNCHANGED <<request, fs, last, klog>>
    /\ UNCHANGED bfVars

Next ==
    \/ Encode
    \/ DecodeStego
    \/ DecodeCover
    \/ DropSymbol
    \/ InsertSeparator

Spec == Init /\ [][Next]_vars

(* --------------------------- the key model ---------------------------- *)
\* a request for the models that follow no encode call
NoRequest == [cov |-> [png |-> TRUE, w |-> 30, h |-> 30],
              input |-> [kind |-> "text", name |-> "", text |-> << >>,
                         bytes |-> << >>],
              user_key |-> ""]

InitKey ==
    /\ request = NoRequest
    /\ stego = NoImage
    /\ origin = NoOrigin
    /\ fs = [n \in FileNames |-> NoFile]
    /\ last = NoOp
    /\ klog = << >>
    /\ BfIdle

\* the keys Fernet.generate_key has issued in the calls logged so far
Issued(log) == {log[i][2].n : i \in {j \in 1..Len(log) : log[j][2].kind = "random"}}

\* one call of generate_key(user_key); a random key is one not issued before
GenerateKey ==
    /\ Len(klog) < MaxCalls
    /\ \E user_key \in Passphrases :
          klog' = Append(klog, <<user_key,
                                 generate_key(user_key, Cardinality(Issued(klog)) + 1)>>)
    /\ UNCHANGED codecVars
    /\ UNCHANGED bfVars

NextKey == GenerateKey

SpecKey == InitKey /\ [][NextKey]_vars

(* ----------------------- the brute-force model ------------------------ *)
\* the longest wordlist, the largest max_threads, and the bruteforce calls
\* on one Stegano object
MaxWords == 3
MaxW == 2
MaxRuns == 2

\* the passphrase the target image of the search was encoded with
TrueKey == "k1"

\* the payloads of the target image: the empty text, a text, a file, and a
\* file called message.txt
BfInputs ==
    {[kind |-> "text", name |-> "", text |-> t, bytes |-> << >>] :
        t \in {<< >>, <<65>>}}
    \cup {[kind |-> "file", name |-> n, text |-> << >>, bytes |-> <<65>>] :
        n \in FileNames}

BfRequests ==
    {[cov |-> [png |-> TRUE, w |-> 30, h |-> 30], input |-> input,
      user_key |-> TrueKey] : input \in BfInputs}

\* the sequences over S of length n or less
RECURSIVE SeqsUpTo(_, _)
SeqsUpTo(S, n) ==
    IF n = 0 THEN {<< >>}
    ELSE LET shorter == SeqsUpTo(S, n - 1)
         IN shorter \cup {Append(q, x) : q \in shorter, x \in S}

\* a wordlist file, as the lines read_wordlist yields (stripped; "" is a
\* blank line)
Wordlists == SeqsUpTo(Passphrases, MaxWords)

\* a Stegano object on which bruteforce has not run yet, an image that
\* encode saved, and the wordlist and max_threads the searches are given
InitBF ==
    /\ request \in BfRequests
    /\ stego = encode(CoverImage(request.cov), request.input, request.user_key, 0).image
    /\ origin = [exists |-> TRUE, input |-> request.input,
                 user_key |-> request.user_key, tampers |-> 0]
    /\ fs = [n \in FileNames |-> NoFile]
    /\ last = NoOp
    /\ klog = << >>
    /\ stop_event = FALSE
    /\ pc = "idle"
    /\ wordlist \in Wordlists
    /\ cursor = 0
    /\ W \in 1..MaxW
    /\ tasks = << >>
    /\ futures = {}
    /\ attempts = << >>
    /\ found = NoFound
    /\ runs = 0

fixedVars == <<request, stego, origin, last, klog, wordlist, W>>

Terminal == {"Found", "Exhausted", "Interrupted"}
Scanning == {"fill", "poll", "found_decode", "found_write", "found_shutdown"}

\* a worker thread is inside try_key
Busy(t) == t.st \in {"running", "opened"}

\* bruteforce is called: the search state of the call (the flag is the
\* object's, made in __init__, and is left as it is)
Start ==
    /\ pc \in {"idle"} \cup Terminal
    /\ runs < MaxRuns
    /\ \A i \in 1..Len(tasks) : ~Busy(tasks[i])
    /\ pc' = "fill"
    /\ cursor' = 0
    /\ tasks' = << >>
    /\ futures' = {}
    /\ attempts' = << >>
    /\ found' = NoFound
    /\ runs' = runs + 1
    /\ UNCHANGED <<fs, stop_event>>
    /\ UNCHANGED fixedVars

submit_twice(ts) ==
    Append(Append(ts, [st |-> "pending", res |-> None]), [st |-> "pending", res |-> None])

\* word = next(words); futures[executor.submit(try_key, word)] = word
submit(ts) == Append(ts, [st |-> "pending", res |-> None])

unbounded_range(n, max_threads) == TRUE

\* for _ in range(max_threads): the loop has iterations left after n of them
in_range(n, max_threads) == n < max_threads

\* the first loop: up to max_threads lines are submitted
Fill ==
    /\ pc = "fill"
    /\ IF in_range(Cardinality(futures), W) /\ cursor < Len(wordlist)
       THEN /\ tasks' = submit(tasks)
            /\ attempts' = Append(attempts, 0)
            /\ futures' = futures \cup {cursor + 1}
            /\ cursor' = cursor + 1
            /\ pc' = pc
       ELSE /\ pc' = "poll"
            /\ UNCHANGED <<tasks, attempts, futures, cursor>>
    /\ UNCHANGED <<fs, stop_event, found, runs>>
    /\ UNCHANGED fixedVars

never_skips(flag) == FALSE

\* try_key: if self.stop_event.is_set(): return None
skips(flag) == flag

\* ThreadPoolExecutor(max_threads): the threads that are inside try_key
Workers == {i \in 1..Len(tasks) : Busy(tasks[i])}

\* a worker thread that is idle takes a queued task and enters try_key
TaskStart(i) ==
    /\ tasks[i].st = "pending"
    /\ Cardinality(Workers) < W
    /\ IF skips(stop_event)
       THEN /\ tasks' = [tasks EXCEPT ![i] = [st |-> "done", res |-> None]]
            /\ UNCHANGED attempts
       ELSE /\ tasks' = [tasks EXCEPT ![i].st = "running"]
            /\ attempts' = [attempts EXCEPT ![i] = @ + 1]
    /\ UNCHANGED <<fs, stop_event, pc, cursor, futures, found, runs>>
    /\ UNCHANGED fixedVars

truthy_always(message) == TRUE

\* try_key: if message: return word, message
truthy(message) ==
    message.kind = "file" \/ (message.kind = "text" /\ message.text # << >>)

\* try_key's decode call, up to its return or to its open of the output file
TaskDecode(i) ==
    /\ tasks[i].st = "running"
    /\ \E n \in KeyIndices(wordlist[i]) :
        \E out \in {decode_parse(stego, wordlist[i], n)} :
          IF out.step = "open"
          THEN /\ fs' = open_wb(fs, out.name)
               /\ tasks' = [tasks EXCEPT ![i].st = "opened"]
          ELSE /\ fs' = fs
               /\ tasks' = [tasks EXCEPT ![i] =
                              [st |-> "done",
                               res |-> IF truthy(out.ret) THEN out.ret ELSE None]]
    /\ UNCHANGED <<stop_event, pc, cursor, futures, attempts, found, runs>>
    /\ UNCHANGED fixedVars

\* the rest of that decode call: f.write(decrypted_data), which raises on
\* None, and the close of the file
TaskWrite(i) ==
    /\ tasks[i].st = "opened"
    /\ \E n \in KeyIndices(wordlist[i]) :
        \E out \in {decode_parse(stego, wordlist[i], n)} :
          /\ fs' = IF out.dec.ok THEN write_close(fs, out.name, out.dec.data) ELSE fs
          /\ tasks' = [tasks EXCEPT ![i] =
                         [st |-> "done",
                          res |-> IF truthy(out.ret) THEN out.ret ELSE None]]
    /\ UNCHANGED <<stop_event, pc, cursor, futures, attempts, found, runs>>
    /\ UNCHANGED fixedVars

keep_futures(ts) == ts

\* executor.shutdown(wait=False, cancel_futures=True): queued tasks are
\* cancelled, running ones go on
cancel_futures(ts) ==
    [i \in 1..Len(ts) |-> IF ts[i].st = "pending"
                          THEN [ts[i] EXCEPT !.st = "cancelled"] ELSE ts[i]]

keep_future(fut, i) == fut

\* del futures[future]
del_future(fut, i) == fut \ {i}

\* the polling loop takes a finished task: a result ends the search, no
\* result drops the task and submits the next line, if there is one
Collect(i) ==
    /\ pc = "poll"
    /\ i \in futures
    /\ tasks[i].st = "done"
    /\ IF truthy(tasks[i].res)
       THEN /\ found' = [key |-> wordlist[i], message |-> tasks[i].res]
            /\ pc' = IF tasks[i].res.kind = "file" /\ fs[tasks[i].res.name].exists
                     THEN "found_decode" ELSE "found_shutdown"
            /\ UNCHANGED <<tasks, attempts, futures, cursor>>
       ELSE /\ IF cursor < Len(wordlist)
               THEN /\ tasks' = submit(tasks)
                    /\ attempts' = Append(attempts, 0)
                    /\ futures' = del_future(futures, i) \cup {cursor + 1}
                    /\ cursor' = cursor + 1
               ELSE /\ futures' = del_future(futures, i)
                    /\ UNCHANGED <<tasks, attempts, cursor>>
            /\ UNCHANGED <<found, pc>>
    /\ UNCHANGED <<fs, stop_event, runs>>
    /\ UNCHANGED fixedVars

\* while futures: ... ends; "No valid message found", return None
Exhaust ==
    /\ pc = "poll"
    /\ futures = {}
    /\ pc' = "Exhausted"
    /\ UNCHANGED <<fs, stop_event, cursor, tasks, futures, attempts, found, runs>>
    /\ UNCHANGED fixedVars

\* self.decode(image_path, key) of the coordinating thread, up to its open
FoundDecode ==
    /\ pc = "found_decode"
    /\ \E n \in KeyIndices(found.key) :
        \E out \in {decode_parse(stego, found.key, n)} :
          IF out.step = "open"
          THEN fs' = open_wb(fs, out.name) /\ pc' = "found_write"
          ELSE fs' = fs /\ pc' = "found_shutdown"
    /\ UNCHANGED <<stop_event, cursor, tasks, futures, attempts, found, runs>>
    /\ UNCHANGED fixedVars

\* the write and close of that decode call
FoundWrite ==
    /\ pc = "found_write"
    /\ \E n \in KeyIndices(found.key) :
        \E out \in {decode_parse(stego, found.key, n)} :
          fs' = IF out.dec.ok THEN write_close(fs, out.name, out.dec.data) ELSE fs
    /\ pc' = "found_shutdown"
    /\ UNCHANGED <<stop_event, cursor, tasks, futures, attempts, found, runs>>
    /\ UNCHANGED fixedVars

\* executor.shutdown(wait=False, cancel_futures=True); return decoded_message
FoundShutdown ==
    /\ pc = "found_shutdown"
    /\ tasks' = cancel_futures(tasks)
    /\ pc' = "Found"
    /\ UNCHANGED <<fs, stop_event, cursor, futures, attempts, found, runs>>
    /\ UNCHANGED fixedVars

\* KeyboardInterrupt in the coordinating thread: self.stop_event.set()
Interrupt ==
    /\ pc \in Scanning
    /\ stop_event' = TRUE
    /\ pc' = "interrupt"
    /\ UNCHANGED <<fs, cursor, tasks, futures, attempts, found, runs>>
    /\ UNCHANGED fixedVars

\* the finally clause after the handler: executor.shutdown(cancel_futures=True)
InterruptShutdown ==
    /\ pc = "interrupt"
    /\ tasks' = cancel_futures(tasks)
    /\ pc' = "Interrupted"
    /\ UNCHANGED <<fs, stop_event, cursor, futures, attempts, found, runs>>
    /\ UNCHANGED fixedVars

NextBF ==
    \/ Start
    \/ Fill
    \/ \E i \in 1..Len(tasks) : TaskStart(i)
    \/ \E i \in 1..Len(tasks) : TaskDecode(i)
    \/ \E i \in 1..Len(tasks) : TaskWrite(i)
    \/ \E i \in 1..Len(tasks) : Collect(i)
    \/ Exhaust
    \/ FoundDecode
    \/ FoundWrite
    \/ FoundShutdown
    \/ Interrupt
    \/ InterruptShutdown

SpecBF == InitBF /\ [][NextBF]_vars

(* --------------- the brute force on images of any kind ---------------- *)
\* the request whose image the targets below come from
FileRequest ==
    [cov |-> [png |-> TRUE, w |-> 30, h |-> 30],
     input |-> [kind |-> "file", name |-> "a.bin", text |-> << >>, bytes |-> <<65>>],
     user_key |-> TrueKey]

\* the image encode saved for that request
Saved == encode(CoverImage(FileRequest.cov), FileRequest.input,
                FileRequest.user_key, 0).image

\* a hidden text that encode did not write: its first part is no base64
Foreign == <<Meta("message.txt")>> \o separator \o <<Meta("message.txt")>>

\* the images a search may be pointed at, each with what it was encoded from:
\* the saved image, the cover that carries nothing, the saved image with a
\* byte of its separator lost, with its metadata lost, with a second
\* separator at its end, and an image with a foreign hidden text
Targets ==
    {[image |-> Saved,
      origin |-> [exists |-> TRUE, input |-> FileRequest.input,
                  user_key |-> FileRequest.user_key, tampers |-> 0]],
     [image |-> CoverImage(FileRequest.cov), origin |-> NoOrigin],
     [image |-> [Saved EXCEPT !.frame = Foreign], origin |-> NoOrigin]}
    \cup {[image |-> [Saved EXCEPT !.frame = f],
           origin |-> [exists |-> TRUE, input |-> FileRequest.input,
                       user_key |-> FileRequest.user_key, tampers |-> 1]] :
            f \in {RemoveAt(Saved.frame, 2),
                   RemoveAt(Saved.frame, Len(Saved.frame)),
                   InsertAt(Saved.frame, Len(Saved.frame) + 1, separator)}}

InitTargets ==
    /\ request = FileRequest
    /\ \E t \in Targets : stego = t.image /\ origin = t.origin
    /\ fs = [n \in FileNames |-> NoFile]
    /\ last = NoOp
    /\ klog = << >>
    /\ stop_event = FALSE
    /\ pc = "idle"
    /\ wordlist \in Wordlists
    /\ cursor = 0
    /\ W \in 1..MaxW
    /\ tasks = << >>
    /\ futures = {}
    /\ attempts = << >>
    /\ found = NoFound
    /\ runs = 0

SpecTargets == InitTargets /\ [][NextBF]_vars

(* ------------------- the brute force, scheduled ----------------------- *)
\* the coordinating thread keeps running (its loop polls every millisecond)
\* and every worker thread of the pool gets to run; a caller need not call
\* bruteforce again and a user need not interrupt, so Start and Interrupt
\* carry no fairness
Fairness ==
    /\ WF_vars(Fill)
    /\ WF_vars(\E i \in 1..Len(tasks) : Collect(i))
    /\ WF_vars(Exhaust)
    /\ WF_vars(FoundDecode)
    /\ WF_vars(FoundWrite)
    /\ WF_vars(FoundShutdown)
    /\ WF_vars(InterruptShutdown)
    /\ WF_vars(\E i \in 1..Len(tasks) : TaskStart(i))
    /\ WF_vars(\E i \in 1..Len(tasks) : TaskDecode(i))
    /\ WF_vars(\E i \in 1..Len(tasks) : TaskWrite(i))

\* the wordlists of the scheduled searches: empty, the passphrase alone, the
\* passphrase after and between other lines, and no passphrase at all
ShortWordlists ==
    {<< >>, <<"k1">>, <<"k2", "k1">>, <<"k2", "k1", "k2">>, <<"", "k2", "k2">>}

\* the scheduled searches: on the saved image that carries a file
InitFair ==
    /\ request = FileRequest
    /\ stego = Saved
    /\ origin = [exists |-> TRUE, input |-> FileRequest.input,
                 user_key |-> FileRequest.user_key, tampers |-> 0]
    /\ fs = [n \in FileNames |-> NoFile]
    /\ last = NoOp
    /\ klog = << >>
    /\ stop_event = FALSE
    /\ pc = "idle"
    /\ wordlist \in ShortWordlists
    /\ cursor = 0
    /\ W \in 1..MaxW
    /\ tasks = << >>
    /\ futures = {}
    /\ attempts = << >>
    /\ found = NoFound
    /\ runs = 0

FairBF == InitFair /\ [][NextBF]_vars /\ Fairness

(* ------------------------- claims on the codec ------------------------ *)
\* the last call decoded the saved image as encode left it
DecodedIntact ==
    /\ last.op = "decode" /\ last.target = "stego"
    /\ origin.exists /\ origin.tampers = 0

\* C1 (as claimed): round trip. Decoding the image encode produced, with the
\* passphrase (non-empty) it was encoded with, returns the payload: the inline
\* text itself, or, for a file payload, the file written under its base name
\* with the original contents.
C1_RoundTrip ==
    (DecodedIntact /\ origin.user_key # "" /\ last.user_key = origin.user_key)
        => IF origin.input.kind = "text"
           THEN last.ret = TextResult(origin.input.text)
           ELSE /\ last.ret = FileResult(origin.input.name)
                /\ fs[origin.input.name] = File(origin.input.bytes)

\* C2 (as claimed): capacity guard. When the frame to embed is longer than
\* width*height*3/8 bytes, encode reports both sizes, never calls lsb.hide
\* and saves no image.
C2_CapacityGuard ==
    (last.op = "encode" /\ last.frameLen > last.capacity)
        => (last.reported /\ ~last.hideCalled /\ ~last.wrote)

\* C5: key sensitivity. Decoding the image encode produced with a passphrase
\* other than the one it was encoded with returns None, and decrypt has
\* refused the token.
C5_KeySensitivity ==
    (DecodedIntact /\ last.user_key # origin.user_key)
        => (last.ret = None /\ last.authFailed)

C5_Witness ==
    /\ DecodedIntact /\ last.user_key # origin.user_key
    /\ origin.input.kind = "file" /\ last.user_key # "" /\ origin.user_key # ""

\* C8 (as claimed): no partial output. A decode that returns None has created
\* or changed no file, and an encode that failed has saved no image.
C8_NoPartialOutput ==
    /\ (last.op = "decode" /\ last.ret = None) => fs = last.fsBefore
    /\ (last.op = "encode" /\ last.err # "") => ~last.wrote

\* C9: frame integrity. A revealed frame that does not split into exactly two
\* parts on the separator is rejected: decode returns None, as a corrupted
\* message (one part) or a failed unpacking (three or more), and touches no file.
C9_FrameIntegrity ==
    (last.op = "decode" /\ last.nparts >= 1 /\ last.nparts # 2)
        => /\ last.ret = None
           /\ fs = last.fsBefore
           /\ last.err = (IF last.nparts < 2 THEN "corrupted" ELSE "unpack")

C9_Witness ==
    /\ last.op = "decode" /\ last.nparts = 3
    /\ \E i \in 1..Len(stego.frame) : stego.frame[i].t = "b64"
    /\ \E i \in 1..Len(stego.frame) : stego.frame[i].t = "json"

\* C10 (as claimed): any two calls of generate_key with the same passphrase
\* string return the same key.
C10_Deterministic ==
    \A i, j \in 1..Len(klog) :
        klog[i][1] = klog[j][1] => klog[i][2] = klog[j][2]

\* C10 (amended): any two calls of generate_key with the same non-empty
\* passphrase return the same key.
C10_DeterministicNonEmpty ==
    \A i, j \in 1..Len(klog) :
        (klog[i][1] # "" /\ klog[i][1] = klog[j][1]) => klog[i][2] = klog[j][2]

C10_Witness ==
    \E i, j \in 1..Len(klog) : i < j /\ klog[i][1] = "k1" /\ klog[j][1] = "k1"

(* --------------------- claims on the brute force ---------------------- *)
TrueKeyInWordlist == \E i \in 1..Len(wordlist) : wordlist[i] = origin.user_key

\* what a search that found the key returns for a payload: the text, or the
\* name of the file decode wrote
Expected(input) ==
    IF input.kind = "text" THEN TextResult(input.text)
    ELSE IF input.name = "message.txt" THEN TextResult(Utf8Decode(input.bytes).text)
    ELSE FileResult(input.name)

\* C3 (as claimed): brute-force correctness. A search over a wordlist that
\* contains the true passphrase never ends Exhausted, and a search that ends
\* Found has taken the true passphrase and the decoded payload.
C3_BruteForceFinds ==
    /\ (pc = "Exhausted") => ~TrueKeyInWordlist
    /\ (pc = "Found") => (found.key = origin.user_key
                          /\ found.message = Expected(origin.input))

\* C4 (as claimed): brute-force exhaustion. A search over a wordlist without
\* the passphrase ends Exhausted only after one decode attempt, and no more,
\* was run for every line of the wordlist.
C4_ExhaustedAfterAll ==
    (pc = "Exhausted" /\ ~TrueKeyInWordlist)
        => (Len(attempts) = Len(wordlist)
            /\ \A i \in 1..Len(attempts) : attempts[i] = 1)

\* C6: cancellation promptness. While the flag is set no queued task begins a
\* decode attempt: a task that starts then returns None with no attempt made;
\* an attempt that is running goes on to its end.
C6_NoStartAfterCancel ==
    [][\A i \in 1..Len(tasks) :
          (stop_event /\ tasks[i].st = "pending" /\ Len(tasks') = Len(tasks))
              => /\ tasks'[i].st \in {"pending", "cancelled", "done"}
                 /\ tasks'[i].res = None
                 /\ attempts'[i] = attempts[i]]_vars

C6_Witness ==
    /\ stop_event
    /\ \E i \in 1..Len(tasks) : tasks[i].st = "done" /\ attempts[i] = 0
    /\ \E i \in 1..Len(tasks) : tasks[i].st = "done" /\ attempts[i] = 1
                                 /\ i \in futures

\* C7: interrupt. An interrupt can come at every point of a running search;
\* it sets the flag, after it no line is read and no task submitted, the
\* search ends Interrupted and nothing else, with every task that had not
\* started cancelled, and without waiting for the running ones.
C7_Interrupt ==
    /\ [](pc \in Scanning => ENABLED Interrupt)
    /\ [](pc \in {"interrupt", "Interrupted"} => stop_event)
    /\ [](pc = "Interrupted" => \A i \in 1..Len(tasks) : tasks[i].st # "pending")
    /\ [][pc = "interrupt" => pc' \in {"interrupt", "Interrupted"}]_vars
    /\ [][(pc \in {"interrupt", "Interrupted"} /\ pc' \in {"interrupt", "Interrupted"})
            => (cursor' = cursor /\ Len(tasks') = Len(tasks))]_vars

C7_Witness ==
    /\ pc = "Interrupted"
    /\ \E i \in 1..Len(tasks) : Busy(tasks[i])
    /\ \E i \in 1..Len(tasks) : tasks[i].st = "cancelled"
    /\ cursor < Len(wordlist)

\* the tasks whose decode call holds the output file open for writing
Writers == {i \in 1..Len(tasks) : tasks[i].st = "opened"}

\* C11 (as claimed): single writer. In a search the output file is written by
\* the coordinating thread alone, once: no two writers hold it open at the
\* same time, it has not been written when the coordinating thread begins its
\* decode, and that decode runs only after cancellation was requested.
C11_SingleWriter ==
    /\ Cardinality(Writers) + (IF pc = "found_write" THEN 1 ELSE 0) <= 1
    /\ pc = "found_decode" => ~fs[found.message.name].exists
    /\ pc \in {"found_decode", "found_write"} => stop_event

\* C12 (as claimed): failed attempts are probes. A search whose wordlist has
\* no matching line leaves the files as they were before it (none exists).
C12_FailedProbe ==
    ~TrueKeyInWordlist => fs = [n \in FileNames |-> NoFile]

\* C13 (as claimed): the flag is set once. In the first search on a Stegano
\* object the flag is unset while lines are submitted and results polled, and
\* it is set when the search has ended Found or Interrupted.
C13_FlagSetOnEnd ==
    runs = 1 =>
        /\ pc \in {"fill", "poll"} => ~stop_event
        /\ pc \in {"Found", "Interrupted"} => stop_event

\* the attempts that can still run to their end: those running, and those
\* of queued tasks that will not skip
Unfinished ==
    {i \in 1..Len(tasks) :
        Busy(tasks[i]) \/ (tasks[i].st = "pending" /\ ~skips(stop_event))}

\* a match was taken from the polling loop
Matched == pc \in {"found_decode", "found_write", "found_shutdown", "Found"}

\* the interrupt handler has run
Stopped == pc \in {"interrupt", "Interrupted"}

\* C14 (as claimed): wasted attempts. Once cancellation is requested, by a
\* match or by an interrupt, at most W-1 attempts can still run to their end.
C14_WastedAttempts ==
    (Matched \/ Stopped) => Cardinality(Unfinished) <= W - 1

\* C14 (amended): after a match at most W-1 attempts can still run to their
\* end, after an interrupt at most W, and from then on no attempt is added to
\* them.
C14_WastedAttemptsByCause ==
    /\ [](Matched => Cardinality(Unfinished) <= W - 1)
    /\ [](Stopped => Cardinality(Unfinished) <= W)
    /\ [][((Matched \/ Stopped) /\ (Matched' \/ Stopped'))
            => Unfinished' \subseteq Unfinished]_vars

C14_Witness ==
    /\ pc = "Interrupted" /\ W >= 2
    /\ Cardinality(Unfinished) = W
    /\ cursor < Len(wordlist)

\* C15: bounded pool. The tasks submitted and not yet dropped by the polling
\* loop are never more than max_threads, and a line is read from the wordlist
\* only by the first loop while it has iterations left, or to take the place
\* of one finished task that returned no result.
C15_BoundedPool ==
    /\ [](Cardinality(futures) <= W)
    /\ [][(pc \in Scanning /\ cursor' # cursor) =>
            /\ cursor' = cursor + 1
            /\ Len(tasks') = Len(tasks) + 1
            /\ \/ /\ pc = "fill"
                  /\ Cardinality(futures) < W
                  /\ futures' = futures \cup {cursor'}
               \/ /\ pc = "poll"
                  /\ \E i \in futures :
                        /\ tasks[i].st = "done" /\ tasks[i].res = None
                        /\ futures' = (futures \ {i}) \cup {cursor'}]_vars

C15_Witness ==
    /\ pc = "poll" /\ W >= 2
    /\ Cardinality(futures) = W
    /\ cursor > W

\* C16 (as claimed): fresh search state. Every bruteforce call begins, and
\* submits its first lines, with the flag unset.
C16_FlagUnsetAtStart ==
    pc = "fill" => ~stop_event

\* what one decode call with passphrase word makes of the target image
Attempt(word) == decode_parse(stego, word, CHOOSE n \in KeyIndices(word) : TRUE)

\* C17: a failed attempt is a wrong candidate and no more. Whatever the image
\* holds, a task whose decode fails ends with no result; the search ends Found
\* only on a result, and leaves its polling loop only on a result, on an
\* interrupt, or with every line of the wordlist consumed and nothing left in
\* flight; a task taken from the loop without a result leaves the search
\* polling, with the next line, if one remains, submitted.
C17_FailureIsWrongCandidate ==
    /\ [](\A i \in 1..Len(tasks) :
            (tasks[i].st = "done" /\ attempts[i] = 1 /\ Attempt(wordlist[i]).err # "")
                => tasks[i].res = None)
    /\ [](Matched => found.message # None)
    /\ [][(pc = "poll" /\ pc' # "poll") =>
            \/ pc' = "interrupt"
            \/ Matched'
            \/ pc' = "Exhausted" /\ futures = {} /\ cursor = Len(wordlist)]_vars
    /\ [][\A i \in futures :
            (pc = "poll" /\ tasks[i].st = "done" /\ tasks[i].res = None
             /\ i \notin futures')
                => /\ pc' = "poll"
                   /\ cursor < Len(wordlist) =>
                        /\ cursor' = cursor + 1
                        /\ cursor' \in futures'
                        /\ tasks'[cursor'].st = "pending"]_vars

\* a search on the image with the foreign hidden text: the first line failed
\* (invalid base64), was dropped, and the second line is submitted
C17_Witness ==
    /\ stego.frame = Foreign
    /\ Attempt(wordlist[1]).err = "base64"
    /\ pc = "poll" /\ futures = {2}
    /\ tasks[1].st = "done" /\ attempts[1] = 1 /\ tasks[1].res = None
    /\ tasks[2].st = "pending"

\* C18: wordlist order. The lines are submitted one by one in the order of
\* the wordlist: the tasks submitted so far are those of the first cursor
\* lines, one task each, a new task is always that of the line after them,
\* and in a search the cursor never moves back.
C18_WordlistOrder ==
    /\ [](Len(tasks) = cursor /\ cursor <= Len(wordlist))
    /\ [](futures \subseteq 1..cursor)
    /\ [][(pc \in Scanning \cup {"interrupt"}) => cursor' \in {cursor, cursor + 1}]_vars
    /\ [][cursor' = cursor + 1 =>
            /\ Len(tasks') = cursor'
            /\ SubSeq(tasks', 1, cursor) = tasks
            /\ tasks'[cursor'].st = "pending"
            /\ cursor' \notin futures /\ cursor' \in futures']_vars

C18_Witness ==
    /\ pc = "poll" /\ W >= 2
    /\ cursor = Len(wordlist) /\ cursor >= 3
    /\ futures = {cursor - 1, cursor}
    /\ \A i \in 1..Len(tasks) : attempts[i] = 1

\* C19 (as claimed): the file after the search. When a search on an image
\* that carries a file ended Found and every task it submitted has finished
\* or was cancelled, the output file holds the bytes of the payload.
C19_FileHoldsPayload ==
    (/\ pc = "Found"
     /\ origin.input.kind = "file" /\ found.message = FileResult(origin.input.name)
     /\ \A i \in 1..Len(tasks) : tasks[i].st \in {"done", "cancelled"})
        => fs[origin.input.name] = File(origin.input.bytes)

\* C20: termination. Every search that was started ends, and it ends in one
\* of Found, Exhausted and Interrupted: Found with the result it took,
\* Exhausted and Interrupted without one, and the search stays ended until
\* bruteforce is called again.
C20_Terminates ==
    /\ (pc \in Scanning \cup {"interrupt"}) ~> (pc \in Terminal)
    /\ [](pc \in {"idle"} \cup Scanning \cup {"interrupt"} \cup Terminal)
    /\ [](pc = "Found" => found.message # None)
    /\ [](pc = "Exhausted" => found = NoFound)
    /\ [][(pc \in Terminal) => pc' \in {pc, "fill"}]_vars

C20_Witness ==
    /\ pc = "Exhausted" /\ runs = 1
    /\ Len(wordlist) >= 2 /\ cursor = Len(wordlist)
    /\ \A i \in 1..Len(tasks) : attempts[i] = 1

=============================================================================
